---------------------------- MODULE Spec2Model ----------------------------
(***************************************************************************)
(* A model of the SMJ7 jukebox (src/smj7.py): the query parser and SQL     *)
(* builder search_media, the SQLite wrapper do_sql as far as a select over *)
(* the media table goes, the playlist command handler playlist_handler and *)
(* the playback loop play.                                                 *)
(*                                                                         *)
(* A Python string is a sequence of one-character strings.  An SQL text is *)
(* a sequence of fragments (the string literals the code concatenates);    *)
(* FragLen gives the number of characters of a fragment, so that len() of  *)
(* an SQL text is computed as Python computes it.                          *)
(***************************************************************************)
EXTENDS Integers, Sequences, FiniteSets, TLC

(***************************************************************************)
(* Bounds of the model.                                                    *)
(***************************************************************************)
MaxLen == 4        \* longest free-form query string
MaxClauses == 3    \* most clauses of a generated comma-separated query
MaxText == 2       \* longest clause text of a one-clause query
MaxResults == 3    \* longest result list handed to playlist_handler
MaxCommand == 2    \* longest playlist command string
MaxLines == 4      \* lines printed after which the interactive loop prompts no more
MaxFiles == 4      \* paths under the location
MaxInputs == 2     \* files under the location given to a transcoder

VARIABLES
    media,          \* the rows of the media table
    input_string,   \* search_media's argument
    genre_params, artist_params, album_params, title_params, multi_params,
    sql,            \* the crafted SQL statement
    sql_params,     \* the crafted SQL variables
    results,        \* what do_sql returned to search_media's caller
    raised,         \* the exception that left the running function, or "none"
    command,        \* playlist_handler's input_string
    media_entries,  \* playlist_handler's media_entries (the caller's list object)
    call_entries,   \* the value of media_entries when playlist_handler was called
    playlist,       \* the list play was called with
    play_called,    \* whether play was called
    playing,        \* index of the last track of playlist handed to mplayer
    stopped,        \* whether the playback loop hit its break
    outcomes,       \* how each call of mplayer of the running play ended, in order
    mode,           \* "query" when -Q is given with a value, else "interactive"
    argument,       \* args.query, the -Q argument
    output,         \* the lines printed
    files,          \* the files under args.location: absent, or their age
    db_exists,      \* os.path.exists(args.database)
    db_time,        \* the modification time of the database file
    freshen,        \* args.freshen
    force_rescan,   \* args.force_rescan
    made_db,        \* whether make_db was called
    before_count,   \* index_media's before_count
    pending,        \* the files the file getter has still to yield
    transaction,    \* the rows inserted and not yet committed
    script,         \* the transcoder that runs
    use_ffmpeg,     \* USE_FFMPEG: afconvert was not found and ffmpeg was
    afconvert_codecs, ffmpeg_codecs,  \* AFCONVERT_CODECS, FFMPEG_CODECS
    args,           \* the transcoder's args: lossless, codec, bitrate, baseline
    tree,           \* the files under the transcoder's location
    stage,          \* for each file given to the pool, the call its worker is in
    encoded,        \* for each file, the options its encoder was called with
    pc              \* the position of the program

vars == <<media, input_string, genre_params, artist_params, album_params,
          title_params, multi_params, sql, sql_params, results, raised,
          command, media_entries, call_entries, playlist, play_called,
          playing, stopped, outcomes, mode, argument, output, files, db_exists,
          db_time, freshen, force_rescan, made_db, before_count, pending,
          transaction, script, use_ffmpeg, afconvert_codecs, ffmpeg_codecs,
          args, tree, stage, encoded, pc>>

searchVars == <<input_string, genre_params, artist_params, album_params,
                title_params, multi_params, sql, sql_params, results>>

playVars == <<command, media_entries, call_entries, playlist, play_called,
              playing, stopped, outcomes, output>>

mainVars == <<mode, argument>>

indexVars == <<files, db_exists, db_time, freshen, force_rescan, made_db,
               before_count, pending, transaction>>

transcodeVars == <<script, use_ffmpeg, afconvert_codecs, ffmpeg_codecs, args,
                   tree, stage, encoded>>

(***************************************************************************)
(* Python's string and list primitives.                                    *)
(***************************************************************************)
Whitespace == {" "}

\* s[i:] with a 0-based i, 0 <= i
SliceFrom(s, i) == SubSeq(s, i + 1, Len(s))

\* the least index of s holding sep, or 0
IndexOf(s, sep) ==
    IF \E i \in 1..Len(s) : s[i] = sep
    THEN CHOOSE i \in 1..Len(s) : s[i] = sep /\ \A j \in 1..(i - 1) : s[j] # sep
    ELSE 0

\* s.split(sep): the list of the pieces of s between the occurrences of sep
RECURSIVE split(_, _)
split(s, sep) ==
    LET i == IndexOf(s, sep)
    IN  IF i = 0 THEN <<s>>
        ELSE <<SubSeq(s, 1, i - 1)>> \o split(SubSeq(s, i + 1, Len(s)), sep)

RECURSIVE lstrip(_)
lstrip(s) == IF s # <<>> /\ Head(s) \in Whitespace THEN lstrip(Tail(s)) ELSE s

RECURSIVE rstrip(_)
rstrip(s) ==
    IF s # <<>> /\ s[Len(s)] \in Whitespace
    THEN rstrip(SubSeq(s, 1, Len(s) - 1)) ELSE s

\* strip left out: the string as it came
strip_none(s) == s

\* s.strip()
strip(s) == rstrip(lstrip(s))

\* s.startswith(c) for a one-character c
startswith(s, c) == s # <<>> /\ s[1] = c

\* [x] * n, for a list x
RECURSIVE Repeat(_, _)
Repeat(x, n) == IF n <= 0 THEN <<>> ELSE x \o Repeat(x, n - 1)

\* sep.join(parts), for a list of texts
RECURSIVE join(_, _)
join(sep, parts) ==
    IF parts = <<>> THEN <<>>
    ELSE IF Len(parts) = 1 THEN parts[1]
    ELSE parts[1] \o sep \o join(sep, Tail(parts))

(***************************************************************************)
(* The SQL fragments of search_media and their lengths in characters.      *)
(***************************************************************************)
pre_sql == <<"select * from media where ">>
post_sql == <<" order by artist, album, discnumber, tracknumber">>

LeafColumn ==
    [f \in {"genre like ?", "artist like ?", "album like ?", "title like ?"} |->
        CASE f = "genre like ?" -> "genre"
          [] f = "artist like ?" -> "artist"
          [] f = "album like ?" -> "album"
          [] f = "title like ?" -> "title"]

IsLeaf(f) == f \in DOMAIN LeafColumn

FragLen(f) ==
    CASE f = "(" -> 1
      [] f = ")" -> 1
      [] f = " or " -> 4
      [] f = " and " -> 5
      [] f = "genre like ?" -> 12
      [] f = "artist like ?" -> 13
      [] f = "album like ?" -> 12
      [] f = "title like ?" -> 12
      [] f = "select * from media where " -> 26
      [] f = " order by artist, album, discnumber, tracknumber" -> 48

\* len(x) of an SQL text
RECURSIVE len(_)
len(x) == IF x = <<>> THEN 0 ELSE FragLen(Head(x)) + len(Tail(x))

(***************************************************************************)
(* search_media: the parsing of the query string (smj7.py 365-382).        *)
(***************************************************************************)
NoParams == [genre |-> <<>>, artist |-> <<>>, album |-> <<>>, title |-> <<>>,
             multi |-> <<>>]

\* filter_word with the album branch appending the word with its sigil
filter_word_keeps_sigil(acc, raw) ==
    LET word == strip(raw)
    IN  IF startswith(word, "!") THEN [acc EXCEPT !.genre = Append(@, SliceFrom(word, 1))]
        ELSE IF startswith(word, "@") THEN [acc EXCEPT !.artist = Append(@, SliceFrom(word, 1))]
        ELSE IF startswith(word, "#") THEN [acc EXCEPT !.album = Append(@, word)]
        ELSE IF startswith(word, "$") THEN [acc EXCEPT !.title = Append(@, SliceFrom(word, 1))]
        ELSE [acc EXCEPT !.multi = Append(@, word)]

\* one pass of the loop body: strip the word and append it to its category
filter_word(acc, raw) ==
    LET word == strip(raw)
    IN  IF startswith(word, "!") THEN [acc EXCEPT !.genre = Append(@, SliceFrom(word, 1))]
        ELSE IF startswith(word, "@") THEN [acc EXCEPT !.artist = Append(@, SliceFrom(word, 1))]
        ELSE IF startswith(word, "#") THEN [acc EXCEPT !.album = Append(@, SliceFrom(word, 1))]
        ELSE IF startswith(word, "$") THEN [acc EXCEPT !.title = Append(@, SliceFrom(word, 1))]
        ELSE [acc EXCEPT !.multi = Append(@, word)]

\* the loop over the words, in order
RECURSIVE filter_words(_, _)
filter_words(acc, words) ==
    IF words = <<>> THEN acc
    ELSE filter_words(filter_word(acc, Head(words)), Tail(words))

\* the five parameter lists after the loop over input_string.split(',')
parse_query(q) == filter_words(NoParams, split(q, ","))

(***************************************************************************)
(* search_media: the SQL blocks (smj7.py 384-395).                         *)
(***************************************************************************)
multi_leaf == <<"artist like ?", " or ", "album like ?", " or ", "title like ?">>

\* '(' + ' or '.join([leaf] * n) + ')'
or_block(leaf, n) == <<"(">> \o join(<<" or ">>, Repeat(<<leaf>>, n)) \o <<")">>

genre_sql(p) == or_block(<<"genre like ?">>, Len(p.genre))
artist_sql(p) == or_block(<<"artist like ?">>, Len(p.artist))
album_sql(p) == or_block(<<"album like ?">>, Len(p.album))
title_sql(p) == or_block(<<"title like ?">>, Len(p.title))
\* multi_sql comparing the genre where the title belongs
multi_sql_genre_for_title(p) ==
    or_block(<<"artist like ?", " or ", "album like ?", " or ", "genre like ?">>, Len(p.multi))

multi_sql(p) == or_block(multi_leaf, Len(p.multi))

\* nonempty_blocks with the threshold off by one: "()" passes
nonempty_blocks_keeps_empty(blocks) == SelectSeq(blocks, LAMBDA x : len(x) >= 2)

\* filter(lambda x: len(x) > 2, blocks)
nonempty_blocks(blocks) == SelectSeq(blocks, LAMBDA x : len(x) > 2)

\* craft_sql writing the first title text into the statement, in quotes
craft_sql_inlines_title(p) ==
    pre_sql
    \o join(<<" and ">>,
            nonempty_blocks(<<genre_sql(p), artist_sql(p), album_sql(p), multi_sql(p)>>)
            \o (IF p.title = <<>> THEN <<>>
                ELSE << <<"(", "title like '%">> \o p.title[1] \o <<"%'", ")">> >>))
    \o post_sql

\* craft_sql with the album block put first
craft_sql_album_first(p) ==
    pre_sql
    \o join(<<" and ">>, nonempty_blocks(<<album_sql(p), genre_sql(p), artist_sql(p),
                                           title_sql(p), multi_sql(p)>>))
    \o post_sql

\* the statement text for the parameter lists p
craft_sql(p) ==
    pre_sql
    \o join(<<" and ">>, nonempty_blocks(<<genre_sql(p), artist_sql(p), album_sql(p),
                                           title_sql(p), multi_sql(p)>>))
    \o post_sql

\* the list the "?" substitution draws from, in the order the code concatenates it
param_order(p) == p.genre \o p.artist \o p.album \o p.title \o Repeat(p.multi, 3)

\* ['%' + param + '%' for param in ...]
craft_params(p) ==
    LET ps == param_order(p)
    IN  [i \in 1..Len(ps) |-> <<"%">> \o ps[i] \o <<"%">>]

(***************************************************************************)
(* SQLite, as far as the crafted select uses it: LIKE, the binding of the  *)
(* "?" placeholders in their order of appearance, AND over the             *)
(* parenthesised blocks, OR inside a block, and ORDER BY under the default *)
(* BINARY collation.                                                       *)
(***************************************************************************)
\* the ASCII codes of the characters the model uses
Ord ==
    [c \in {" ", "!", "#", "$", "%", ",", "/", "@", "A", "B", "_", "a", "b"} |->
        CASE c = " " -> 32 [] c = "!" -> 33 [] c = "#" -> 35 [] c = "$" -> 36
          [] c = "%" -> 37 [] c = "," -> 44 [] c = "/" -> 47 [] c = "@" -> 64
          [] c = "A" -> 65 [] c = "B" -> 66 [] c = "_" -> 95
          [] c = "a" -> 97 [] c = "b" -> 98]

\* LIKE folds the case of the ASCII letters
lower(c) == CASE c = "A" -> "a" [] c = "B" -> "b" [] OTHER -> c

\* value LIKE pattern: "%" stands for any run of characters, "_" for any one
RECURSIVE like(_, _)
like(pattern, value) ==
    IF pattern = <<>> THEN value = <<>>
    ELSE IF Head(pattern) = "%"
         THEN like(Tail(pattern), value)
              \/ (value # <<>> /\ like(pattern, Tail(value)))
    ELSE /\ value # <<>>
         /\ (Head(pattern) = "_" \/ lower(Head(pattern)) = lower(Head(value)))
         /\ like(Tail(pattern), Tail(value))

\* the WHERE condition of a crafted statement
where_of(stmt) == SubSeq(stmt, Len(pre_sql) + 1, Len(stmt) - Len(post_sql))

\* the "?" placeholders of an SQL text
placeholders(text) == Len(SelectSeq(text, IsLeaf))

\* a parenthesised block holding at least one comparison
well_formed_block(b) ==
    /\ Len(b) >= 3
    /\ b[1] = "(" /\ b[Len(b)] = ")"
    /\ \A i \in 2..(Len(b) - 1) : IF i % 2 = 0 THEN IsLeaf(b[i]) ELSE b[i] = " or "
    /\ Len(b) % 2 = 1

\* sqlite3 parses the statement: a WHERE with no condition is a syntax error
well_formed(stmt) ==
    /\ Len(stmt) >= Len(pre_sql) + Len(post_sql)
    /\ SubSeq(stmt, 1, Len(pre_sql)) = pre_sql
    /\ SubSeq(stmt, Len(stmt) - Len(post_sql) + 1, Len(stmt)) = post_sql
    /\ where_of(stmt) # <<>>
    /\ \A b \in {split(where_of(stmt), " and ")[i] :
                    i \in 1..Len(split(where_of(stmt), " and "))} : well_formed_block(b)

\* the value of block number k of the WHERE condition on a row: the j-th
\* comparison of the whole condition is bound to column_data[j]
block_holds(blocks, k, column_data, row) ==
    LET before == placeholders(join(<<" and ">>, SubSeq(blocks, 1, k - 1)))
        leaves == SelectSeq(blocks[k], IsLeaf)
    IN  \E j \in 1..Len(leaves) :
            like(column_data[before + j], row[LeafColumn[leaves[j]]])

where_holds(stmt, column_data, row) ==
    LET blocks == split(where_of(stmt), " and ")
    IN  \A k \in 1..Len(blocks) : block_holds(blocks, k, column_data, row)

\* memcmp order of two texts
RECURSIVE text_less(_, _)
text_less(x, y) ==
    IF y = <<>> THEN FALSE
    ELSE IF x = <<>> THEN TRUE
    ELSE IF Ord[Head(x)] # Ord[Head(y)] THEN Ord[Head(x)] < Ord[Head(y)]
    ELSE text_less(Tail(x), Tail(y))

\* order by artist, album, discnumber, tracknumber; rows that tie on all four
\* come out in the order of their paths
row_less(r, o) ==
    IF r.artist # o.artist THEN text_less(r.artist, o.artist)
    ELSE IF r.album # o.album THEN text_less(r.album, o.album)
    ELSE IF r.discnumber # o.discnumber THEN r.discnumber < o.discnumber
    ELSE IF r.tracknumber # o.tracknumber THEN r.tracknumber < o.tracknumber
    ELSE text_less(r.path, o.path)

\* the sorter: one row put into its place among rows already in order
RECURSIVE sorted_insert(_, _)
sorted_insert(r, sorted) ==
    IF sorted = <<>> THEN <<r>>
    ELSE IF row_less(r, Head(sorted)) THEN <<r>> \o sorted
    ELSE <<Head(sorted)>> \o sorted_insert(r, Tail(sorted))

RECURSIVE order_by(_)
order_by(rows) ==
    IF rows = {} THEN <<>>
    ELSE LET r == CHOOSE x \in rows : TRUE
         IN  sorted_insert(r, order_by(rows \ {r}))

\* the exception curs.execute raises for a statement, or "none"
execute_error(stmt, column_data) ==
    IF ~well_formed(stmt) THEN "OperationalError"
    ELSE IF placeholders(where_of(stmt)) # Len(column_data) THEN "ProgrammingError"
    ELSE "none"

\* do_sql(query, column_data=...) for a select over the rows of the table
do_sql(stmt, column_data, rows) ==
    order_by({r \in rows : where_holds(stmt, column_data, r)})

(***************************************************************************)
(* The indexed library: one row per file, the tags drawn from Names.       *)
(***************************************************************************)
Names == << <<"a">>, <<"b">>, <<"B", "a">> >>
Genres == << <<"a">>, <<"b">> >>

Library ==
    { [title |-> Names[t], artist |-> Names[ar], album |-> Names[al],
       genre |-> Genres[g], discnumber |-> 1, tracknumber |-> 2 * (t - 1) + g,
       path |-> <<"/">> \o Names[ar] \o <<"/">> \o Names[al] \o <<"/">>
                \o Names[t] \o <<"/">> \o Genres[g]] :
        t \in 1..2, ar \in 1..Len(Names), al \in 1..2, g \in 1..Len(Genres) }

(***************************************************************************)
(* The query strings given to search_media.                                *)
(***************************************************************************)
QueryChars == {"a", ",", " ", "!", "@", "#", "$"}
TextChars == {"a", "A", "b", "_", "%"}
ClauseWords == { <<"a">>, <<"b">>, <<"!", "a">>, <<"@", "a">>, <<"#", "b">>,
                 <<"$", "B">> }

Strings(chars, n) == UNION { [1..k -> chars] : k \in 0..n }

FreeQueries == Strings(QueryChars, MaxLen)
ClauseQueries ==
    { join(<<<<",">>>>[1], ws) : ws \in UNION { [1..k -> ClauseWords] : k \in 1..MaxClauses } }
TextQueries == Strings(TextChars, MaxText)

Queries == FreeQueries \cup ClauseQueries \cup TextQueries

(***************************************************************************)
(* search_media(input_string) (smj7.py 351-400).                           *)
(***************************************************************************)
search_media ==
    LET p == parse_query(input_string)
        stmt == craft_sql(p)
        data == craft_params(p)
        err == execute_error(stmt, data)
    IN  /\ pc = "search"
        /\ genre_params' = p.genre
        /\ artist_params' = p.artist
        /\ album_params' = p.album
        /\ title_params' = p.title
        /\ multi_params' = p.multi
        /\ sql' = stmt
        /\ sql_params' = data
        /\ raised' = err
        /\ results' = IF err = "none" THEN do_sql(stmt, data, media) ELSE <<>>
        /\ pc' = "searched"
        /\ UNCHANGED <<media, input_string>>
        /\ UNCHANGED playVars
        /\ UNCHANGED mainVars
        /\ UNCHANGED transcodeVars
        /\ UNCHANGED indexVars

\* input = raw_input(...) of the interactive loop, or the -Q argument
read_query ==
    /\ pc = "prompt"
    /\ \E q \in Queries : input_string' = q
    /\ pc' = "search"
    /\ UNCHANGED <<media, genre_params, artist_params, album_params, title_params,
                   multi_params, sql, sql_params, results, raised>>
    /\ UNCHANGED playVars
    /\ UNCHANGED mainVars
    /\ UNCHANGED transcodeVars
    /\ UNCHANGED indexVars

InitSearch ==
    /\ media = Library
    /\ input_string = <<>>
    /\ genre_params = <<>> /\ artist_params = <<>> /\ album_params = <<>>
    /\ title_params = <<>> /\ multi_params = <<>>
    /\ sql = <<>> /\ sql_params = <<>> /\ results = <<>>
    /\ raised = "none"
    /\ command = <<>> /\ media_entries = <<>> /\ call_entries = <<>>
    /\ playlist = <<>> /\ play_called = FALSE /\ playing = 0 /\ stopped = FALSE
    /\ outcomes = <<>>
    /\ mode = "interactive" /\ argument = <<>>
    /\ files = <<>> /\ db_exists = TRUE /\ db_time = 0
    /\ freshen = FALSE /\ force_rescan = FALSE /\ made_db = FALSE
    /\ before_count = 0 /\ pending = {} /\ transaction = {}
    /\ script = "smj7" /\ use_ffmpeg = FALSE
    /\ afconvert_codecs = {} /\ ffmpeg_codecs = {}
    /\ args = <<>> /\ tree = {} /\ stage = <<>> /\ encoded = <<>>
    /\ output = <<>>
    /\ pc = "prompt"

NextSearch == read_query \/ search_media

SpecSearch == InitSearch /\ [][NextSearch]_vars

(***************************************************************************)
(* Vocabulary of the properties of search_media.                           *)
(***************************************************************************)
Searched == pc = "searched"

Sigils == {"!", "@", "#", "$"}
TextColumns == {"artist", "album", "title"}

\* the rows search_media returned, as a set
Found == {results[i] : i \in 1..Len(results)}

\* what the syntax guide calls a match: the comparison the statement makes
\* between a column and a clause text
Matches(text, value) == like(<<"%">> \o text \o <<"%">>, value)

\* the positions of the commas of s, and the number of its segments
CommaAt(s) == {i \in 1..Len(s) : s[i] = ","}
SegmentCount(s) == Cardinality(CommaAt(s)) + 1

\* segment k of s: what lies between comma k-1 and comma k
SegmentStart(s, k) ==
    IF k = 1 THEN 1
    ELSE 1 + CHOOSE i \in CommaAt(s) : Cardinality({j \in CommaAt(s) : j < i}) = k - 2
SegmentEnd(s, k) ==
    IF k = SegmentCount(s) THEN Len(s)
    ELSE (CHOOSE i \in CommaAt(s) : Cardinality({j \in CommaAt(s) : j < i}) = k - 1) - 1
Segment(s, k) == SubSeq(s, SegmentStart(s, k), SegmentEnd(s, k))

\* w without its surrounding blanks
Trimmed(w) ==
    LET inked == {i \in 1..Len(w) : w[i] # " "}
    IN  IF inked = {} THEN <<>>
        ELSE SubSeq(w, CHOOSE i \in inked : \A j \in inked : i <= j,
                       CHOOSE i \in inked : \A j \in inked : j <= i)

TrimmedSegments(s) == [k \in 1..SegmentCount(s) |-> Trimmed(Segment(s, k))]

\* the texts of the segments that begin with sigil c, in order, c removed
RoutedBy(s, c) ==
    LET hits == SelectSeq(TrimmedSegments(s), LAMBDA w : w # <<>> /\ w[1] = c)
    IN  [i \in 1..Len(hits) |-> SubSeq(hits[i], 2, Len(hits[i]))]

\* the segments that begin with no sigil, in order, whole
Unprefixed(s) == SelectSeq(TrimmedSegments(s), LAMBDA w : w = <<>> \/ w[1] \notin Sigils)

\* the clause lists of the last query, by field
ClauseTexts ==
    [genre |-> genre_params, artist |-> artist_params, album |-> album_params,
     title |-> title_params, any |-> multi_params]

Fields == {"genre", "artist", "album", "title", "any"}

\* the columns a clause of field f is compared with
ColumnsOf(f) == IF f = "any" THEN TextColumns ELSE {f}

\* some clause of field f matches the row
GroupMatches(f, row) ==
    \E i \in 1..Len(ClauseTexts[f]) :
        \E col \in ColumnsOf(f) : Matches(ClauseTexts[f][i], row[col])

\* the blocks of the crafted WHERE condition
Blocks == split(where_of(sql), " and ")

(***************************************************************************)
(* C1: for a query with n >= 1 unprefixed clauses T1..Tn, the any group of *)
(* the crafted predicate (its last block) holds on a row exactly when some *)
(* Ti matches the row's artist, album or title.                            *)
(* The code binds the 3n placeholders of the block to multi_params * 3,    *)
(* that is T1..Tn T1..Tn T1..Tn, so with n = 3 the artist comparisons all  *)
(* get T1, the album comparisons T2 and the title comparisons T3.          *)
(***************************************************************************)
C1_AnyGroupMatchesEveryText ==
    (Searched /\ raised = "none" /\ multi_params # <<>>) =>
        \A row \in media :
            block_holds(Blocks, Len(Blocks), sql_params, row) <=> GroupMatches("any", row)

(***************************************************************************)
(* C2: the crafted predicate is the AND, over the fields that have a       *)
(* clause, of the OR of that field's clauses, each comparison bound to its *)
(* clause's text: the rows returned are exactly the rows on which every    *)
(* field with a clause has a matching clause.  Fails with three unprefixed *)
(* clauses, through the binding C1 describes.                              *)
(***************************************************************************)
C2_AndOfOrGroups ==
    (Searched /\ raised = "none") =>
        Found = {row \in media :
                    \A f \in Fields : ClauseTexts[f] # <<>> => GroupMatches(f, row)}

(***************************************************************************)
(* C3: every comma-separated segment, trimmed, goes by its first character *)
(* to genre (!), artist (@), album (#), title ($) or any; exactly the one  *)
(* sigil is removed, an unprefixed segment is stored whole.                *)
(***************************************************************************)
C3_SigilRouting ==
    Searched =>
        /\ genre_params = RoutedBy(input_string, "!")
        /\ artist_params = RoutedBy(input_string, "@")
        /\ album_params = RoutedBy(input_string, "#")
        /\ title_params = RoutedBy(input_string, "$")
        /\ multi_params = Unprefixed(input_string)

\* a query with a blank before a sigil clause whose text keeps a second sigil,
\* followed by an empty unprefixed segment
C3_Witness ==
    /\ Searched
    /\ input_string = <<" ", "@", "$", ",">>
    /\ artist_params = << <<"$">> >>
    /\ multi_params = << <<>> >>
    /\ title_params = <<>>

(***************************************************************************)
(* C4: a segment that is empty after trimming and sigil-stripping gives no *)
(* clause: no parameter list holds an empty text and no bound parameter    *)
(* comes from one.  The code appends the text whatever its length.         *)
(***************************************************************************)
C4_EmptySegmentsDropped ==
    Searched =>
        /\ \A f \in Fields : \A i \in 1..Len(ClauseTexts[f]) : ClauseTexts[f][i] # <<>>
        /\ \A i \in 1..Len(sql_params) : sql_params[i] # <<"%", "%">>

(***************************************************************************)
(* C5: for every input string search_media crafts a statement SQLite       *)
(* accepts (a WHERE condition that is not empty, as many placeholders as   *)
(* bound parameters, no exception), and a query none of whose segments     *)
(* carries a text returns every row of the table.                          *)
(***************************************************************************)
C5_AlwaysWellFormed ==
    Searched =>
        /\ raised = "none"
        /\ where_of(sql) # <<>>
        /\ placeholders(where_of(sql)) = Len(sql_params)
        /\ (\A f \in Fields : \A i \in 1..Len(ClauseTexts[f]) : ClauseTexts[f][i] = <<>>)
              => Found = media

\* a query made of commas, blanks and a lone sigil returns the whole table
C5_Witness ==
    /\ Searched
    /\ input_string = <<",", " ", "@", ",">>
    /\ raised = "none"
    /\ Len(results) = Cardinality(media)

(***************************************************************************)
(* C6: a comparison holds exactly when the clause text occurs in the field *)
(* value as a contiguous substring, ignoring case, also for a text holding *)
(* "%" or "_": a query of one unprefixed clause T returns exactly the rows *)
(* whose artist, album or title contains T.  The code hands T to LIKE      *)
(* unescaped, where "_" and "%" are wildcards.                             *)
(***************************************************************************)
Fold(w) == [i \in 1..Len(w) |-> lower(w[i])]

Contains(value, text) ==
    \E i \in 0..(Len(value) - Len(text)) :
        SubSeq(Fold(value), i + 1, i + Len(text)) = Fold(text)

C6_SubstringIgnoringCase ==
    (Searched /\ raised = "none" /\ Len(multi_params) = 1 /\ Len(sql_params) = 3) =>
        Found = {row \in media :
                    \E col \in TextColumns : Contains(row[col], multi_params[1])}

(***************************************************************************)
(* playlist_handler(input_string, media_entries) (smj7.py 405-429) and     *)
(* play(media_entries) (smj7.py 212-224).                                  *)
(***************************************************************************)
Digits == {"0", "1", "3", "4"}

DigitValue(c) == CASE c = "0" -> 0 [] c = "1" -> 1 [] c = "3" -> 3 [] c = "4" -> 4

\* s.isdigit()
isdigit(s) == s # <<>> /\ \A i \in 1..Len(s) : s[i] \in Digits

\* int(s) for a string of digits
RECURSIVE int(_)
int(s) ==
    IF s = <<>> THEN 0
    ELSE 10 * int(SubSeq(s, 1, Len(s) - 1)) + DigitValue(s[Len(s)])

\* 0 < n <= len(entries) with the upper comparison dropped
in_range_unbounded(n, entries) == 0 < n

\* 0 < input_string <= len(media_entries)
in_range(n, entries) == 0 < n /\ n <= Len(entries)

\* index_slice starting one track late
index_slice_late(entries, n) == SliceFrom(entries, n)

\* media_entries[input_string - 1:]
index_slice(entries, n) == SliceFrom(entries, n - 1)

\* random_pick handing over the whole list
random_pick_all(entries) == {entries}

\* the lists [random_choice(media_entries)] can be, for a list with a track
random_pick(entries) == {<<entries[i]>> : i \in 1..Len(entries)}

\* shuffles drawing every place anew: tracks repeat and go missing
shuffles_with_repeats(x) ==
    { [i \in 1..Len(x) |-> x[f[i]]] : f \in [1..Len(x) -> 1..Len(x)] }

\* the lists random.shuffle can leave in place of x
shuffles(x) ==
    { [i \in 1..Len(x) |-> x[f[i]]] :
        f \in {g \in [1..Len(x) -> 1..Len(x)] : \A i, j \in 1..Len(x) : g[i] = g[j] => i = j} }

\* how a call of mplayer through check_call can end
PlayerOutcomes == {"ok", "KeyboardInterrupt", "CalledProcessError"}

\* call_play losing the first track of the list
call_play_drops_first(entries) ==
    /\ playlist' = IF entries = <<>> THEN entries ELSE Tail(entries)
    /\ play_called' = TRUE
    /\ playing' = 0
    /\ stopped' = FALSE
    /\ outcomes' = <<>>
    /\ pc' = IF Len(entries) <= 1 THEN "done" ELSE "play"

\* the call play(entries): the loop is entered when there is a track
call_play(entries) ==
    /\ playlist' = entries
    /\ play_called' = TRUE
    /\ playing' = 0
    /\ stopped' = FALSE
    /\ outcomes' = <<>>
    /\ pc' = IF entries = <<>> THEN "done" ELSE "play"

no_play == UNCHANGED <<playlist, play_called, playing, stopped, outcomes>>

playlist_handler ==
    LET s == strip(command)
    IN  /\ pc = "call"
        /\ call_entries' = media_entries
        /\ IF isdigit(s)
           THEN IF in_range(int(s), media_entries)
                THEN /\ call_play(index_slice(media_entries, int(s)))
                     /\ UNCHANGED <<media_entries, output, raised>>
                ELSE /\ output' = Append(output, [line |-> "Enter value from 1 to %s, try again.",
                                                  arg |-> Len(media_entries)])
                     /\ pc' = "done"
                     /\ no_play
                     /\ UNCHANGED <<media_entries, raised>>
           ELSE IF startswith(s, "a")
           THEN /\ call_play(media_entries)
                /\ UNCHANGED <<media_entries, output, raised>>
           ELSE IF startswith(s, "r")
           THEN IF media_entries = <<>>
                THEN \* random.choice of an empty sequence
                     /\ raised' = "IndexError"
                     /\ pc' = "raised"
                     /\ no_play
                     /\ UNCHANGED <<media_entries, output>>
                ELSE \E picked \in random_pick(media_entries) :
                        /\ call_play(picked)
                        /\ UNCHANGED <<media_entries, output, raised>>
           ELSE IF startswith(s, "s")
           THEN \E shuffled \in shuffles(media_entries) :
                    /\ media_entries' = shuffled
                    /\ call_play(shuffled)
                    /\ UNCHANGED <<output, raised>>
           ELSE \* the message is an expression statement: nothing is printed
                /\ pc' = "done"
                /\ no_play
                /\ UNCHANGED <<media_entries, output, raised>>
        /\ UNCHANGED <<media, command>>
        /\ UNCHANGED searchVars
        /\ UNCHANGED mainVars
        /\ UNCHANGED transcodeVars
        /\ UNCHANGED indexVars

\* play_track with the break left out: the loop goes on after a failure
play_track_continues ==
    /\ pc = "play"
    /\ playing < Len(playlist)
    /\ \E outcome \in PlayerOutcomes :
        /\ playing' = playing + 1
        /\ output' = Append(output, [line |-> "--> Playing", arg |-> playlist[playing + 1].path])
        /\ stopped' = (outcome # "ok")
        /\ outcomes' = Append(outcomes, outcome)
        /\ pc' = IF playing + 1 = Len(playlist) THEN "done" ELSE "play"
    /\ UNCHANGED <<media, raised, command, media_entries, call_entries, playlist, play_called>>
    /\ UNCHANGED searchVars
    /\ UNCHANGED mainVars
    /\ UNCHANGED transcodeVars
    /\ UNCHANGED indexVars

\* one pass of the loop of play: the track is announced and handed to mplayer
play_track ==
    /\ pc = "play"
    /\ playing < Len(playlist)
    /\ \E outcome \in PlayerOutcomes :
        /\ playing' = playing + 1
        /\ output' = Append(output, [line |-> "--> Playing", arg |-> playlist[playing + 1].path])
        /\ stopped' = (outcome # "ok")
        /\ outcomes' = Append(outcomes, outcome)
        /\ pc' = IF outcome # "ok" \/ playing + 1 = Len(playlist) THEN "done" ELSE "play"
    /\ UNCHANGED <<media, raised, command, media_entries, call_entries, playlist, play_called>>
    /\ UNCHANGED searchVars
    /\ UNCHANGED mainVars
    /\ UNCHANGED transcodeVars
    /\ UNCHANGED indexVars

(***************************************************************************)
(* The calls of playlist_handler: a result list of search_media (rows of   *)
(* the table in the order of the statement) and a command string.          *)
(***************************************************************************)
CommandChars == Digits \cup {"a", "r", "s", "x", " "}
Commands == Strings(CommandChars, MaxCommand)

Tracks == {order_by(Library)[i] : i \in 1..MaxResults}
ResultLists == {order_by(rows) : rows \in SUBSET Tracks}

InitPlaylist ==
    /\ media = Library
    /\ input_string = <<>>
    /\ genre_params = <<>> /\ artist_params = <<>> /\ album_params = <<>>
    /\ title_params = <<>> /\ multi_params = <<>>
    /\ sql = <<>> /\ sql_params = <<>>
    /\ results = <<>>
    /\ raised = "none"
    /\ command \in Commands
    /\ media_entries \in ResultLists
    /\ call_entries = <<>>
    /\ playlist = <<>> /\ play_called = FALSE /\ playing = 0 /\ stopped = FALSE
    /\ outcomes = <<>>
    /\ mode = "interactive" /\ argument = <<>>
    /\ files = <<>> /\ db_exists = TRUE /\ db_time = 0
    /\ freshen = FALSE /\ force_rescan = FALSE /\ made_db = FALSE
    /\ before_count = 0 /\ pending = {} /\ transaction = {}
    /\ script = "smj7" /\ use_ffmpeg = FALSE
    /\ afconvert_codecs = {} /\ ffmpeg_codecs = {}
    /\ args = <<>> /\ tree = {} /\ stage = <<>> /\ encoded = <<>>
    /\ output = <<>>
    /\ pc = "call"

NextPlaylist == playlist_handler \/ play_track

SpecPlaylist == InitPlaylist /\ [][NextPlaylist]_vars

(***************************************************************************)
(* The main program (smj7.py 492-578): the one-shot query given with -Q    *)
(* and the interactive loop.  The database exists and is indexed, --json   *)
(* is not given.                                                           *)
(***************************************************************************)
\* s.lower()
lowered(s) == [i \in 1..Len(s) |-> lower(s[i])]

\* the lines the loop at 547-565 prints for results[i]: the artist and the
\* album are printed when they differ from those of the track before (the
\* index needs no padding for a list of fewer than ten tracks)
listing_lines(rs, i) ==
    LET artist == IF i = 1 THEN <<>> ELSE rs[i - 1].artist
        album == IF i = 1 THEN <<>> ELSE rs[i - 1].album
        track == [line |-> "    [ %s ] %s", arg |-> <<i, rs[i].title>>]
    IN  IF artist = rs[i].artist
        THEN IF album = rs[i].album THEN <<track>>
             ELSE <<[line |-> " ## %s", arg |-> rs[i].album], track>>
        ELSE <<[line |-> "# %s", arg |-> rs[i].artist],
               [line |-> " ## %s", arg |-> rs[i].album], track>>

RECURSIVE listing(_, _)
listing(rs, n) == IF n = 0 THEN <<>> ELSE listing(rs, n - 1) \o listing_lines(rs, n)

\* one_shot_query taking the command from before the ';' and the query from
\* after it
one_shot_query_swapped ==
    /\ pc = "main"
    /\ mode = "query"
    /\ IF IndexOf(argument, ";") # 0
       THEN IF Len(split(argument, ";")) = 2
            THEN /\ input_string' = split(argument, ";")[2]
                 /\ command' = split(argument, ";")[1]
                 /\ pc' = "search"
                 /\ UNCHANGED raised
            ELSE \* the unpacking of a list of three or more into two names
                 /\ raised' = "ValueError"
                 /\ pc' = "raised"
                 /\ UNCHANGED <<input_string, command>>
       ELSE /\ input_string' = argument
            /\ command' = <<"a">>
            /\ pc' = "search"
            /\ UNCHANGED raised
    /\ UNCHANGED <<media, genre_params, artist_params, album_params, title_params,
                   multi_params, sql, sql_params, results>>
    /\ UNCHANGED <<media_entries, call_entries, playlist, play_called, playing,
                   stopped, outcomes, output>>
    /\ UNCHANGED mainVars
    /\ UNCHANGED transcodeVars
    /\ UNCHANGED indexVars

\* if args.query: the query and the command are taken from the argument
one_shot_query ==
    /\ pc = "main"
    /\ mode = "query"
    /\ IF IndexOf(argument, ";") # 0
       THEN IF Len(split(argument, ";")) = 2
            THEN /\ input_string' = split(argument, ";")[1]
                 /\ command' = split(argument, ";")[2]
                 /\ pc' = "search"
                 /\ UNCHANGED raised
            ELSE \* the unpacking of a list of three or more into two names
                 /\ raised' = "ValueError"
                 /\ pc' = "raised"
                 /\ UNCHANGED <<input_string, command>>
       ELSE /\ input_string' = argument
            /\ command' = <<"a">>
            /\ pc' = "search"
            /\ UNCHANGED raised
    /\ UNCHANGED <<media, genre_params, artist_params, album_params, title_params,
                   multi_params, sql, sql_params, results>>
    /\ UNCHANGED <<media_entries, call_entries, playlist, play_called, playing,
                   stopped, outcomes, output>>
    /\ UNCHANGED mainVars
    /\ UNCHANGED transcodeVars
    /\ UNCHANGED indexVars

\* playlist_handler(command, results) of the one-shot query
one_shot_play ==
    /\ pc = "searched"
    /\ mode = "query"
    /\ IF raised # "none"
       THEN pc' = "raised" /\ UNCHANGED media_entries
       ELSE pc' = "call" /\ media_entries' = results
    /\ UNCHANGED <<media, raised, command, call_entries, playlist, play_called,
                   playing, stopped, outcomes, output>>
    /\ UNCHANGED searchVars
    /\ UNCHANGED mainVars
    /\ UNCHANGED transcodeVars
    /\ UNCHANGED indexVars

\* the two lines printed before the interactive loop
interactive_start ==
    /\ pc = "main"
    /\ mode = "interactive"
    /\ output' = output \o <<[line |-> "For help with SMJ7-style syntax, use ./smj7.py --syntax",
                              arg |-> <<>>],
                             [line |-> "Available parameters: !genre, @artist name, #album name, $track name",
                              arg |-> <<>>]>>
    /\ pc' = "prompt"
    /\ UNCHANGED <<media, raised, command, media_entries, call_entries, playlist,
                   play_called, playing, stopped, outcomes>>
    /\ UNCHANGED searchVars
    /\ UNCHANGED mainVars
    /\ UNCHANGED transcodeVars
    /\ UNCHANGED indexVars

\* the queries typed at the prompt
MainQueries ==
    {<<>>, <<"a">>, <<"b">>, <<"#", "b">>, <<"$", "b">>, <<"!", "a">>, <<"!", "b">>}

\* input = raw_input(...): a line, Ctrl-C or the end of the input
interactive_prompt ==
    /\ pc = "prompt"
    /\ mode = "interactive"
    /\ \/ /\ \E q \in MainQueries : input_string' = q
          /\ pc' = "search"
          /\ UNCHANGED output
       \/ /\ output' = Append(output, [line |-> " ...", arg |-> <<>>])
          /\ pc' = "done"
          /\ UNCHANGED input_string
       \/ /\ output' = Append(output, [line |-> "Goodbye.", arg |-> <<>>])
          /\ pc' = "exit"
          /\ UNCHANGED input_string
    /\ UNCHANGED <<media, genre_params, artist_params, album_params, title_params,
                   multi_params, sql, sql_params, results, raised>>
    /\ UNCHANGED <<command, media_entries, call_entries, playlist, play_called,
                   playing, stopped, outcomes>>
    /\ UNCHANGED mainVars
    /\ UNCHANGED transcodeVars
    /\ UNCHANGED indexVars

\* the play commands typed at the second prompt
DirectiveChars == {"a", "A", "r", "s", "x", "1", "4"}
MainCommands ==
    {<<>>} \cup {<<c>> : c \in DirectiveChars} \cup {<<" ", c>> : c \in DirectiveChars}

\* what the loop does with the results of the search
interactive_results ==
    /\ pc = "searched"
    /\ mode = "interactive"
    /\ IF raised # "none"
       THEN /\ pc' = "raised"
            /\ no_play
            /\ UNCHANGED <<command, media_entries, output>>
       ELSE IF Len(results) = 1
       THEN /\ call_play(results)
            /\ UNCHANGED <<command, media_entries, output>>
       ELSE IF Len(results) > 1
       THEN LET listed == output \o listing(results, Len(results))
                          \o <<[line |-> "Enter # to play, or one of: (A)ll, (R)andom choice, or (S)huffle all",
                                arg |-> <<>>]>>
            IN  /\ no_play
                /\ \/ /\ \E choice \in MainCommands : command' = lowered(choice)
                      /\ media_entries' = results
                      /\ output' = listed
                      /\ pc' = "call"
                   \/ /\ output' = Append(listed, [line |-> " ...", arg |-> <<>>])
                      /\ pc' = "done"
                      /\ UNCHANGED <<command, media_entries>>
                   \/ /\ output' = Append(listed, [line |-> "Goodbye.", arg |-> <<>>])
                      /\ pc' = "exit"
                      /\ UNCHANGED <<command, media_entries>>
       ELSE /\ output' = Append(output, [line |-> "No results found.", arg |-> <<>>])
            /\ pc' = "done"
            /\ no_play
            /\ UNCHANGED <<command, media_entries>>
    /\ UNCHANGED <<media, raised, call_entries>>
    /\ UNCHANGED searchVars
    /\ UNCHANGED mainVars
    /\ UNCHANGED transcodeVars
    /\ UNCHANGED indexVars

\* while True: the loop prompts again
next_prompt ==
    /\ pc = "done"
    /\ mode = "interactive"
    /\ Len(output) < MaxLines
    /\ pc' = "prompt"
    /\ UNCHANGED <<media, raised>>
    /\ UNCHANGED searchVars
    /\ UNCHANGED playVars
    /\ UNCHANGED mainVars
    /\ UNCHANGED transcodeVars
    /\ UNCHANGED indexVars

\* the values of -Q: a query, alone or followed by ';' and a command, and
\* values with two ';'
Arguments ==
    {q \o t : q \in MainQueries,
              t \in {<<>>} \cup {<<";">> \o c : c \in MainCommands}
                    \cup {<<";">> \o c \o <<";">> : c \in {<<>>, <<"a">>}}} \ {<<>>}

InitMain ==
    /\ media = Tracks
    /\ input_string = <<>>
    /\ genre_params = <<>> /\ artist_params = <<>> /\ album_params = <<>>
    /\ title_params = <<>> /\ multi_params = <<>>
    /\ sql = <<>> /\ sql_params = <<>>
    /\ results = <<>>
    /\ raised = "none"
    /\ command = <<>>
    /\ media_entries = <<>>
    /\ call_entries = <<>>
    /\ playlist = <<>> /\ play_called = FALSE /\ playing = 0 /\ stopped = FALSE
    /\ outcomes = <<>>
    /\ \/ mode = "interactive" /\ argument = <<>>
       \/ mode = "query" /\ argument \in Arguments
    /\ files = <<>> /\ db_exists = TRUE /\ db_time = 0
    /\ freshen = FALSE /\ force_rescan = FALSE /\ made_db = FALSE
    /\ before_count = 0 /\ pending = {} /\ transaction = {}
    /\ script = "smj7" /\ use_ffmpeg = FALSE
    /\ afconvert_codecs = {} /\ ffmpeg_codecs = {}
    /\ args = <<>> /\ tree = {} /\ stage = <<>> /\ encoded = <<>>
    /\ output = <<>>
    /\ pc = "main"

NextMain ==
    \/ one_shot_query
    \/ one_shot_play
    \/ interactive_start
    \/ interactive_prompt
    \/ interactive_results
    \/ next_prompt
    \/ search_media
    \/ playlist_handler
    \/ play_track

SpecMain == InitMain /\ [][NextMain]_vars

(***************************************************************************)
(* The indexer: the startup of the main program (smj7.py 468-485),         *)
(* make_db, index_media, the file getters, parse_media_file and the        *)
(* executemany of do_sql.  A file is known by its number k; --force-serial *)
(* and the pool hand the files to executemany in an order the code does    *)
(* not fix.                                                                *)
(***************************************************************************)
\* the times of the run: the ages a file can have, the time of a database
\* written by an earlier run, and the time of the run itself
Times == [old |-> 1, database |-> 2, new |-> 3, now |-> 4]

Extensions == <<".m4a", ".mp3", ".ogg", ".txt">>
MediaExtensions == {".m4a", ".mp3", ".ogg", ".oga", ".flac"}

\* os.path.join(root, filename) of file k
file_path(k) == <<"/">> \o Repeat(<<"a">>, k) \o <<Extensions[((k - 1) % Len(Extensions)) + 1]>>

\* os.path.splitext(os.path.split(path)[1])
filename_split(path) ==
    LET filename == SliceFrom(path, 1)
    IN  <<SubSeq(filename, 1, Len(filename) - 1), filename[Len(filename)]>>

\* what mutagen reads from file k: the tags of a file of an album, or one
\* odd track number and nothing else
mutagen_metadata(k) ==
    IF filename_split(file_path(k))[2] = ".m4a"
    THEN [artist |-> << <<"a">> >>, albumartistsort |-> << <<"b">> >>,
          album |-> << <<"a">> >>, title |-> << <<"b">> >>, genre |-> << <<"a">> >>,
          tracknumber |-> << <<"3", "/", "4">> >>, discnumber |-> << <<"1">> >>]
    ELSE [tracknumber |-> << <<"x">> >>]

\* tags.get(key, default)
get(tags, key, default) == IF key \in DOMAIN tags THEN tags[key] ELSE default

\* int(tags.get(number, ['0/0'])[0].split('/')[0]), 0 on ValueError
tag_number(tags, number) ==
    LET text == split(get(tags, number, << <<"0", "/", "0">> >>)[1], "/")[1]
    IN  IF isdigit(text) THEN int(text) ELSE 0

\* the extensions parse_media_file calls the undefined name og for
parse_raises(k) == filename_split(file_path(k))[2] \in {".oga", ".ogg"}

\* parse_media_file(path) for a file it can read
parse_media_file(k) ==
    LET tags == mutagen_metadata(k)
        artist == get(tags, "artist", << <<"unknown artist">> >>)[1]
    IN  [artist |-> get(tags, "albumartistsort", <<artist>>)[1],
         album |-> get(tags, "album", << <<"unknown album">> >>)[1],
         title |-> get(tags, "title", <<filename_split(file_path(k))[1]>>)[1],
         genre |-> get(tags, "genre", << <<"unknown genre">> >>)[1],
         tracknumber |-> tag_number(tags, "tracknumber"),
         discnumber |-> tag_number(tags, "discnumber"),
         path |-> file_path(k)]

\* get_media_files(path)
get_media_files(disk) ==
    {k \in DOMAIN disk :
        disk[k] # "absent" /\ filename_split(file_path(k))[2] \in MediaExtensions}

\* get_new_media_files(path)
get_new_media_files(disk, database_time) ==
    {k \in DOMAIN disk :
        /\ disk[k] # "absent"
        /\ filename_split(file_path(k))[2] \in MediaExtensions
        /\ Times[disk[k]] > database_time}

\* the row an earlier run left for file k, parsed from the tags of that time
earlier_row(k) == [parse_media_file(k) EXCEPT !.title = <<"o">>]

\* the paths of a set of rows
paths_of(rows) == {row.path : row \in rows}

\* the startup: the database is made when it is missing or --force-rescan
\* is given, and index_media is called unless the database exists and no
\* flag is given
startup ==
    /\ pc = "startup"
    /\ IF (db_exists /\ force_rescan) \/ ~db_exists
       THEN /\ media' = {}
            /\ db_exists' = TRUE
            /\ db_time' = Times.now
            /\ made_db' = TRUE
            /\ pc' = "index"
       ELSE /\ pc' = IF freshen THEN "index" ELSE "indexed"
            /\ UNCHANGED <<media, db_exists, db_time, made_db>>
    /\ UNCHANGED <<files, freshen, force_rescan, before_count, pending, transaction>>
    /\ UNCHANGED raised
    /\ UNCHANGED searchVars
    /\ UNCHANGED playVars
    /\ UNCHANGED mainVars
    /\ UNCHANGED transcodeVars

\* index_media(), up to the call of do_sql: freshen is args.freshen
index_media ==
    /\ pc = "index"
    /\ before_count' = IF freshen THEN Cardinality(media) ELSE before_count
    /\ pending' = IF freshen THEN get_new_media_files(files, db_time)
                  ELSE get_media_files(files)
    /\ transaction' = {}
    /\ pc' = "insert"
    /\ UNCHANGED <<media, files, db_exists, db_time, freshen, force_rescan, made_db>>
    /\ UNCHANGED raised
    /\ UNCHANGED searchVars
    /\ UNCHANGED playVars
    /\ UNCHANGED mainVars
    /\ UNCHANGED transcodeVars

\* curs.executemany(insert_sql, column_data): the next file is parsed and its
\* row inserted; IntegrityError ends the statement and is passed over, and
\* conn.commit() keeps what was inserted before; any other exception leaves
\* do_sql before the commit
executemany ==
    /\ pc = "insert"
    /\ IF pending = {}
       THEN /\ media' = media \cup transaction
            /\ db_time' = IF transaction = {} THEN db_time ELSE Times.now
            /\ transaction' = {}
            /\ pc' = "report"
            /\ UNCHANGED <<pending, raised>>
       ELSE \E k \in pending :
               IF parse_raises(k)
               THEN /\ raised' = "NameError"
                    /\ transaction' = {}
                    /\ pc' = "raised"
                    /\ UNCHANGED <<media, db_time, pending>>
               ELSE IF file_path(k) \in paths_of(media \cup transaction)
               THEN /\ media' = media \cup transaction
                    /\ db_time' = IF transaction = {} THEN db_time ELSE Times.now
                    /\ transaction' = {}
                    /\ pending' = {}
                    /\ pc' = "report"
                    /\ UNCHANGED raised
               ELSE /\ transaction' = transaction \cup {parse_media_file(k)}
                    /\ pending' = pending \ {k}
                    /\ UNCHANGED <<media, db_time, raised, pc>>
    /\ UNCHANGED <<files, db_exists, freshen, force_rescan, made_db, before_count>>
    /\ UNCHANGED searchVars
    /\ UNCHANGED playVars
    /\ UNCHANGED mainVars
    /\ UNCHANGED transcodeVars

\* the line index_media prints at its end
index_report ==
    /\ pc = "report"
    /\ output' = Append(output,
                    IF freshen
                    THEN [line |-> "Indexer: %s indexed %s newer files in %s seconds.",
                          arg |-> Cardinality(media) - before_count]
                    ELSE [line |-> "Indexer: %s indexed %s files in %s seconds.",
                          arg |-> Cardinality(media)])
    /\ pc' = "indexed"
    /\ UNCHANGED <<media, raised, command, media_entries, call_entries, playlist,
                   play_called, playing, stopped, outcomes>>
    /\ UNCHANGED searchVars
    /\ UNCHANGED mainVars
    /\ UNCHANGED transcodeVars
    /\ UNCHANGED indexVars

InitIndex ==
    /\ files \in [1..MaxFiles -> {"absent", "old", "new"}]
    /\ db_exists \in BOOLEAN
    /\ IF db_exists
       THEN /\ db_time = Times.database
            /\ \E indexed \in SUBSET {k \in 1..MaxFiles : ~parse_raises(k)
                                        /\ k \in get_media_files([j \in 1..MaxFiles |-> "old"])} :
                  media = {earlier_row(k) : k \in indexed}
       ELSE /\ db_time = 0
            /\ media = {}
    /\ freshen \in BOOLEAN
    /\ force_rescan \in BOOLEAN
    /\ made_db = FALSE
    /\ before_count = 0 /\ pending = {} /\ transaction = {}
    /\ input_string = <<>>
    /\ genre_params = <<>> /\ artist_params = <<>> /\ album_params = <<>>
    /\ title_params = <<>> /\ multi_params = <<>>
    /\ sql = <<>> /\ sql_params = <<>>
    /\ results = <<>>
    /\ raised = "none"
    /\ command = <<>>
    /\ media_entries = <<>>
    /\ call_entries = <<>>
    /\ playlist = <<>> /\ play_called = FALSE /\ playing = 0 /\ stopped = FALSE
    /\ outcomes = <<>>
    /\ mode = "interactive" /\ argument = <<>>
    /\ script = "smj7" /\ use_ffmpeg = FALSE
    /\ afconvert_codecs = {} /\ ffmpeg_codecs = {}
    /\ args = <<>> /\ tree = {} /\ stage = <<>> /\ encoded = <<>>
    /\ output = <<>>
    /\ pc = "startup"

NextIndex == startup \/ index_media \/ executemany \/ index_report

SpecIndex == InitIndex /\ [][NextIndex]_vars

(***************************************************************************)
(* The transcoders xyz2aac.py, apple-audio-converter/xyz2aac.py and        *)
(* flac2aac.py: the files found under the location are mapped over a pool  *)
(* of workers.  A path is the sequence of its directory names and "/",     *)
(* followed by the characters of the file name.                            *)
(***************************************************************************)
Scripts == {"xyz2aac.py", "apple-audio-converter/xyz2aac.py", "flac2aac.py"}

DotFlac == <<".", "f", "l", "a", "c">>
DotMp3 == <<".", "m", "p", "3">>
DotM4a == <<".", "m", "4", "a">>
DotWav == <<".", "w", "a", "v">>

location == <<"/", "music">>

\* os.path.join(location, 'converted_audio')
output_location == location \o <<"/", "converted_audio">>
tmp_location == <<"/tmp/intermediate_audio/">>

\* s.endswith(suffix)
endswith(s, suffix) ==
    Len(s) >= Len(suffix) /\ SubSeq(s, Len(s) - Len(suffix) + 1, Len(s)) = suffix

\* os.path.basename(path)
basename(path) ==
    LET slashes == {i \in 1..Len(path) : path[i] = "/"}
    IN  IF slashes = {} THEN path
        ELSE SubSeq(path, (CHOOSE i \in slashes : \A j \in slashes : j <= i) + 1, Len(path))

\* the files that can lie under the location
DiskPaths ==
    { location \o <<"/", "a">> \o DotFlac,
      location \o <<"/", "a">> \o DotMp3,
      location \o <<"/", "b">> \o DotM4a,
      location \o <<"/", "sub", "/", "a">> \o DotFlac,
      output_location \o <<"/", "b">> \o DotM4a,
      location \o <<"/", ".", "a">> \o DotMp3,
      location \o <<"/", "a", ".", "t", "x", "t">> }

\* get_audio_files(location) of the two xyz2aac.py
get_audio_files(found) ==
    {f \in found : /\ endswith(f, DotM4a) \/ endswith(f, DotMp3) \/ endswith(f, DotFlac)
                   /\ ~startswith(basename(f), ".")}

\* get_flac_files(location) of flac2aac.py
get_flac_files(found) ==
    {f \in found : endswith(f, DotFlac) /\ ~startswith(basename(f), ".")}

\* get_audio_files(location) of flac2aac.py
flac2aac_get_audio_files(found) ==
    {f \in found : /\ endswith(f, DotM4a) \/ endswith(f, DotMp3)
                   /\ ~startswith(basename(f), ".")}

\* os.path.join(output_location, os.path.basename(audio_file[:-n])) + '.m4a'
m4a_file(audio_file, n) ==
    output_location \o <<"/">> \o basename(SubSeq(audio_file, 1, Len(audio_file) - n))
    \o DotM4a

\* os.path.join(tmp_location, os.path.basename(audio_file[:-5])) + '.wav'
wav_file(audio_file) ==
    tmp_location \o basename(SubSeq(audio_file, 1, Len(audio_file) - 5)) \o DotWav

\* the number of characters process_audio_file cuts off the name
cut_of(audio_file) == IF endswith(audio_file, DotFlac) THEN 5 ELSE 4

\* convert_wav_to_aac: the options of afconvert
convert_wav_to_aac ==
    IF args.lossless THEN [tool |-> "afconvert", d |-> "alac", b |-> 0]
    ELSE [tool |-> "afconvert", d |-> args.codec, b |-> args.bitrate * 1000]

\* convert_with_ffmpeg: the options of ffmpeg
convert_with_ffmpeg ==
    IF args.lossless THEN [tool |-> "ffmpeg", d |-> "alac", b |-> 0]
    ELSE [tool |-> "ffmpeg", d |-> args.codec, b |-> args.bitrate * 1000]

\* convert_audio_to_aac: afconvert when it has the codec or, the codec being
\* unknown to both, when it is there; ffmpeg otherwise
convert_audio_to_aac ==
    LET use_afconvert_for_this ==
            IF args.codec \in afconvert_codecs THEN TRUE
            ELSE IF args.codec \in ffmpeg_codecs THEN FALSE
            ELSE ~use_ffmpeg
    IN  IF ~use_afconvert_for_this /\ use_ffmpeg THEN convert_with_ffmpeg
        ELSE [tool |-> "afconvert", d |-> args.codec, b |-> args.bitrate * 1000]

\* the file the worker of audio_file is writing
Writing(audio_file) ==
    IF stage[audio_file] = "wav" THEN {wav_file(audio_file)}
    ELSE IF stage[audio_file] \in {"m4a", "tags"}
    THEN {m4a_file(audio_file, cut_of(audio_file))}
    ELSE {}

\* the start of the main part: the files found are handed to the pool
transcode_start ==
    /\ pc = "main"
    /\ script \in Scripts
    /\ LET found == IF script = "flac2aac.py"
                    THEN IF args.baseline THEN flac2aac_get_audio_files(tree)
                         ELSE get_flac_files(tree)
                    ELSE get_audio_files(tree)
       IN  stage' = [f \in found |-> "queued"]
    /\ encoded' = <<>>
    /\ output' = Append(output, [line |-> "Processing: %s...", arg |-> location])
    /\ pc' = "pool"
    /\ UNCHANGED <<media, raised, command, media_entries, call_entries, playlist,
                   play_called, playing, stopped, outcomes>>
    /\ UNCHANGED <<script, use_ffmpeg, afconvert_codecs, ffmpeg_codecs, args, tree>>
    /\ UNCHANGED searchVars
    /\ UNCHANGED mainVars
    /\ UNCHANGED indexVars

\* the worker of job goes on to the call next, with the options given when
\* the call is that of the encoder
worker_step(job, next, options) ==
    /\ stage' = [stage EXCEPT ![job] = next]
    /\ encoded' = IF next = "m4a"
                  THEN [f \in DOMAIN encoded \cup {job} |->
                            IF f = job THEN options ELSE encoded[f]]
                  ELSE encoded
    /\ output' = IF next = "done"
                 THEN Append(output, [line |-> "Finished file:",
                                      arg |-> m4a_file(job, cut_of(job))])
                 ELSE output
    /\ UNCHANGED <<media, raised, command, media_entries, call_entries, playlist,
                   play_called, playing, stopped, outcomes, pc>>
    /\ UNCHANGED <<script, use_ffmpeg, afconvert_codecs, ffmpeg_codecs, args, tree>>
    /\ UNCHANGED searchVars
    /\ UNCHANGED mainVars
    /\ UNCHANGED indexVars

\* process_audio_file(audio_file) in a worker, one call at a time: a FLAC
\* file goes through flac and convert_wav_to_aac, or through ffmpeg; any
\* other file goes through convert_audio_to_aac
process_audio_file ==
    /\ pc = "pool"
    /\ script # "flac2aac.py" \/ args.baseline
    /\ \E audio_file \in DOMAIN stage :
          /\ stage[audio_file] # "done"
          /\ IF stage[audio_file] = "queued"
             THEN IF endswith(audio_file, DotFlac)
                  THEN IF use_ffmpeg
                       THEN worker_step(audio_file, "m4a", convert_with_ffmpeg)
                       ELSE worker_step(audio_file, "wav", <<>>)
                  ELSE worker_step(audio_file, "m4a", convert_audio_to_aac)
             ELSE IF stage[audio_file] = "wav"
             THEN worker_step(audio_file, "m4a", convert_wav_to_aac)
             ELSE IF stage[audio_file] = "m4a"
             THEN worker_step(audio_file, "tags", <<>>)
             ELSE worker_step(audio_file, "done", <<>>)

\* process_flac_file(flac_file) of flac2aac.py in a worker, one call at a time
process_flac_file ==
    /\ pc = "pool"
    /\ script = "flac2aac.py" /\ ~args.baseline
    /\ \E flac_file \in DOMAIN stage :
          /\ stage[flac_file] # "done"
          /\ IF stage[flac_file] = "queued" THEN worker_step(flac_file, "wav", <<>>)
             ELSE IF stage[flac_file] = "wav"
             THEN worker_step(flac_file, "m4a", convert_wav_to_aac)
             ELSE IF stage[flac_file] = "m4a" THEN worker_step(flac_file, "tags", <<>>)
             ELSE worker_step(flac_file, "done", <<>>)

\* p.get(0xFFFF) returns when every file is done; the clean-up
transcode_done ==
    /\ pc = "pool"
    /\ \A f \in DOMAIN stage : stage[f] = "done"
    /\ output' = Append(output, [line |-> "Done.", arg |-> <<>>])
    /\ pc' = "done"
    /\ UNCHANGED <<media, raised, command, media_entries, call_entries, playlist,
                   play_called, playing, stopped, outcomes>>
    /\ UNCHANGED searchVars
    /\ UNCHANGED mainVars
    /\ UNCHANGED indexVars
    /\ UNCHANGED transcodeVars

\* the codecs afconvert and ffmpeg are found to have
AfconvertFormats == {"aac", "aach"}
FfmpegFormats == {"aac", "alac"}

InitTranscode ==
    /\ script \in Scripts
    /\ use_ffmpeg \in IF script = "apple-audio-converter/xyz2aac.py" THEN BOOLEAN ELSE {FALSE}
    /\ afconvert_codecs \in
          IF use_ffmpeg THEN {{}}
          ELSE IF script = "apple-audio-converter/xyz2aac.py"
          THEN {{}, AfconvertFormats \cup {"alac"}}
          ELSE {AfconvertFormats}
    /\ ffmpeg_codecs \in IF use_ffmpeg THEN {{}, FfmpegFormats} ELSE {{}}
    /\ LET data_formats == IF afconvert_codecs \cup ffmpeg_codecs = {} THEN {"aac"}
                           ELSE afconvert_codecs \cup ffmpeg_codecs
       IN  args \in [lossless : BOOLEAN, codec : data_formats, bitrate : {128, 256},
                     baseline : IF script = "flac2aac.py" THEN BOOLEAN ELSE {FALSE}]
    /\ tree \in {t \in SUBSET DiskPaths : Cardinality(t) <= MaxInputs}
    /\ stage = <<>>
    /\ encoded = <<>>
    /\ media = {}
    /\ files = <<>> /\ db_exists = TRUE /\ db_time = 0
    /\ freshen = FALSE /\ force_rescan = FALSE /\ made_db = FALSE
    /\ before_count = 0 /\ pending = {} /\ transaction = {}
    /\ input_string = <<>>
    /\ genre_params = <<>> /\ artist_params = <<>> /\ album_params = <<>>
    /\ title_params = <<>> /\ multi_params = <<>>
    /\ sql = <<>> /\ sql_params = <<>>
    /\ results = <<>>
    /\ raised = "none"
    /\ command = <<>>
    /\ media_entries = <<>>
    /\ call_entries = <<>>
    /\ playlist = <<>> /\ play_called = FALSE /\ playing = 0 /\ stopped = FALSE
    /\ outcomes = <<>>
    /\ mode = "interactive" /\ argument = <<>>
    /\ output = <<>>
    /\ pc = "main"

NextTranscode ==
    \/ transcode_start
    \/ process_audio_file
    \/ process_flac_file
    \/ transcode_done

SpecTranscode == InitTranscode /\ [][NextTranscode]_vars

(***************************************************************************)
(* Vocabulary of the properties of playlist_handler.                       *)
(***************************************************************************)
Handled == pc \in {"play", "done", "raised"}
Returned == pc = "done"

\* the directive: the command without its surrounding blanks
Directive == Trimmed(command)

\* an all-digit directive, and the number it writes in decimal
IsIndex == Directive # <<>> /\ \A i \in 1..Len(Directive) : Directive[i] \in Digits
IndexN ==
    LET place(i) == DigitValue(Directive[i]) * 10 ^ (Len(Directive) - i)
        sum[i \in 0..Len(Directive)] == IF i = 0 THEN 0 ELSE sum[i - 1] + place(i)
    IN  sum[Len(Directive)]

FirstIs(c) == ~IsIndex /\ Directive # <<>> /\ Directive[1] = c

\* the tracks handed to mplayer so far, in order
Started == SubSeq(playlist, 1, playing)

RangeMessage(n) == [line |-> "Enter value from 1 to %s, try again.", arg |-> n]

\* how many times track t occurs in list x
Count(x, t) == Cardinality({i \in 1..Len(x) : x[i] = t})

(***************************************************************************)
(* C7: for an all-digit directive N with 1 <= N <= len(results),           *)
(* playlist_handler calls play with exactly results[N-1:], the N-th track  *)
(* and all later tracks in their order.                                    *)
(***************************************************************************)
C7_IndexPlaysSliceFromN ==
    (Handled /\ IsIndex /\ 1 <= IndexN /\ IndexN <= Len(call_entries)) =>
        /\ play_called
        /\ raised = "none"
        /\ playlist = [i \in 1..(Len(call_entries) - IndexN + 1) |->
                          call_entries[IndexN + i - 1]]

\* directive "3" (written with a leading zero) on a list of three tracks
C7_Witness ==
    /\ Handled
    /\ command = <<"0", "3">>
    /\ Len(call_entries) = 3
    /\ playlist = <<call_entries[3]>>

(***************************************************************************)
(* C8: for an all-digit directive N with N = 0 or N > len(results),        *)
(* playlist_handler prints the out-of-range message, hands no track to     *)
(* play and returns normally.                                              *)
(***************************************************************************)
C8_OutOfRangeReported ==
    (Handled /\ IsIndex /\ (IndexN = 0 \/ IndexN > Len(call_entries))) =>
        /\ Returned
        /\ raised = "none"
        /\ ~play_called
        /\ Started = <<>>
        /\ output = <<RangeMessage(Len(call_entries))>>

\* directive "4" on a list of three tracks
C8_Witness ==
    /\ Handled
    /\ command = <<"4", " ">>
    /\ Len(call_entries) = 3
    /\ output = <<RangeMessage(3)>>

(***************************************************************************)
(* C9, as claimed: for every result list the directive r plays exactly one *)
(* track, an element of the list.  On the empty list random_choice raises  *)
(* IndexError and nothing is played.                                       *)
(***************************************************************************)
C9_RandomPlaysOneTrack ==
    (Handled /\ FirstIs("r")) =>
        /\ play_called
        /\ Len(playlist) = 1
        /\ \E i \in 1..Len(call_entries) : playlist[1] = call_entries[i]
        /\ Returned => Started = playlist

(***************************************************************************)
(* C9, amended: for every result list that is not empty the directive r    *)
(* calls play with exactly one track, an element of the list, and that     *)
(* track is the one handed to mplayer.                                     *)
(***************************************************************************)
C9_RandomPlaysOneTrackOfNonEmpty ==
    (Handled /\ FirstIs("r") /\ call_entries # <<>>) =>
        /\ play_called
        /\ raised = "none"
        /\ Len(playlist) = 1
        /\ \E i \in 1..Len(call_entries) : playlist[1] = call_entries[i]
        /\ Returned => Started = playlist

\* r on three tracks picked the last one, and it was played to its end
C9_Witness ==
    /\ Returned
    /\ FirstIs("r")
    /\ Len(call_entries) = 3
    /\ playlist = <<call_entries[3]>>
    /\ Started = playlist
    /\ ~stopped

(***************************************************************************)
(* C10: the directive s calls play with a permutation of the result list:  *)
(* the same length and every track as many times as in the list.           *)
(***************************************************************************)
C10_ShuffleIsPermutation ==
    (Handled /\ FirstIs("s")) =>
        /\ play_called
        /\ raised = "none"
        /\ Len(playlist) = Len(call_entries)
        /\ \A t \in Tracks : Count(playlist, t) = Count(call_entries, t)

\* s on three tracks left them in another order
C10_Witness ==
    /\ Handled
    /\ FirstIs("s")
    /\ Len(call_entries) = 3
    /\ playlist = <<call_entries[3], call_entries[1], call_entries[2]>>

(***************************************************************************)
(* C11: the directive a calls play with exactly the result list, in the    *)
(* same order and of the same length; for the empty list play gets the     *)
(* empty sequence and no track is handed to mplayer.                       *)
(***************************************************************************)
C11_AllPlaysTheList ==
    (Handled /\ FirstIs("a")) =>
        /\ play_called
        /\ raised = "none"
        /\ playlist = call_entries
        /\ call_entries = <<>> => (Returned /\ Started = <<>> /\ output = <<>>)
        /\ (Returned /\ ~stopped) => Started = call_entries

\* a on three tracks, all played to the end
C11_Witness ==
    /\ Returned
    /\ command = <<"a">>
    /\ Len(call_entries) = 3
    /\ Started = call_entries
    /\ ~stopped

(***************************************************************************)
(* C12: the directive is the command without surrounding blanks; all       *)
(* digits means index N; otherwise the first character a, r, s means all,  *)
(* random-one, shuffle-all; every other text, the empty one included, is   *)
(* unrecognized and plays no track.  Each class is known by what the       *)
(* handler did.                                                            *)
(***************************************************************************)
Unrecognized == ~IsIndex /\ ~FirstIs("a") /\ ~FirstIs("r") /\ ~FirstIs("s")

IndexDone ==
    IF 1 <= IndexN /\ IndexN <= Len(call_entries)
    THEN play_called /\ Len(playlist) = Len(call_entries) - IndexN + 1
                     /\ playlist[1] = call_entries[IndexN]
    ELSE ~play_called /\ output = <<RangeMessage(Len(call_entries))>>

C12_DirectivePrecedence ==
    Handled =>
        /\ IsIndex => IndexDone
        /\ FirstIs("a") => (play_called /\ playlist = call_entries)
        /\ FirstIs("r") => IF call_entries = <<>> THEN raised = "IndexError"
                           ELSE play_called /\ Len(playlist) = 1
        /\ FirstIs("s") => (play_called /\ media_entries = playlist
                            /\ Len(playlist) = Len(call_entries))
        /\ Unrecognized => (Returned /\ ~play_called /\ Started = <<>> /\ raised = "none")

\* "1a" is not all digits and does not begin with a letter of a directive
C12_Witness ==
    /\ Returned
    /\ command = <<"1", "a">>
    /\ Len(call_entries) = 3
    /\ ~play_called

(***************************************************************************)
(* C13: for an unrecognized directive a message is printed before the      *)
(* handler returns.  In the code the message is an expression statement    *)
(* (smj7.py 429 has no print): nothing is printed.                         *)
(***************************************************************************)
C13_UnrecognizedReported ==
    (Returned /\ Unrecognized) => output # <<>>

(***************************************************************************)
(* C14: for every result list and every directive playlist_handler returns *)
(* without raising.  The directive r on the empty list raises IndexError.  *)
(***************************************************************************)
C14_HandlerNeverRaises ==
    Handled => (raised = "none" /\ pc # "raised")

(***************************************************************************)
(* C16, as claimed: after playlist_handler the list that was passed holds  *)
(* the same tracks in the same order as before the call.  The directive s  *)
(* shuffles the caller's list in place.                                    *)
(***************************************************************************)
C16_ListUntouched ==
    Handled => media_entries = call_entries

(***************************************************************************)
(* C16, amended: for every directive but s the list that was passed is as  *)
(* before the call; after s it holds the same tracks, each as many times,  *)
(* in the order that was played.                                           *)
(***************************************************************************)
C16_ListUntouchedUnlessShuffled ==
    Handled =>
        IF FirstIs("s")
        THEN /\ media_entries = playlist
             /\ Len(media_entries) = Len(call_entries)
             /\ \A t \in Tracks : Count(media_entries, t) = Count(call_entries, t)
        ELSE media_entries = call_entries

\* s left the caller's list of two tracks reversed
C16_Witness ==
    /\ Handled
    /\ FirstIs("s")
    /\ Len(call_entries) = 2
    /\ media_entries = <<call_entries[2], call_entries[1]>>

(***************************************************************************)
(* C17: play hands the tracks to mplayer one at a time in the order of the *)
(* list; the tracks started are the prefix that ends with the first track  *)
(* whose mplayer call was interrupted or failed, or the whole list; no     *)
(* track is started after such a call, and play returns normally.          *)
(***************************************************************************)
Announced == SelectSeq(output, LAMBDA l : l.line = "--> Playing")

C17_PlayStopsAtFirstFailure ==
    play_called =>
        /\ Len(outcomes) <= Len(playlist)
        /\ Len(Announced) = Len(outcomes)
        /\ \A i \in 1..Len(outcomes) : Announced[i].arg = playlist[i].path
        /\ \A i \in 1..(Len(outcomes) - 1) : outcomes[i] = "ok"
        /\ raised = "none"
        /\ Returned <=> (\/ Len(outcomes) = Len(playlist)
                         \/ (outcomes # <<>> /\ outcomes[Len(outcomes)] # "ok"))

\* three tracks to play, the second interrupted: the third is never started
C17_Witness ==
    /\ Returned
    /\ Len(playlist) = 3
    /\ outcomes = <<"ok", "KeyboardInterrupt">>
    /\ Len(Announced) = 2

(***************************************************************************)
(* Vocabulary of the properties of the order of the rows and of the text   *)
(* of the statement.                                                       *)
(***************************************************************************)
\* -1, 0 or 1 as text x comes before, with or after text y, character by
\* character under the character code given
TextCmp(x, y, code(_)) ==
    LET n == IF Len(x) < Len(y) THEN Len(x) ELSE Len(y)
        differ == {i \in 1..n : code(x[i]) # code(y[i])}
    IN  IF differ = {}
        THEN (IF Len(x) < Len(y) THEN -1 ELSE IF Len(x) > Len(y) THEN 1 ELSE 0)
        ELSE LET i == CHOOSE i \in differ : \A j \in differ : i <= j
             IN  IF code(x[i]) < code(y[i]) THEN -1 ELSE 1

NumCmp(a, b) == IF a < b THEN -1 ELSE IF a > b THEN 1 ELSE 0

\* row r may stand before row o under order by artist, album, discnumber,
\* tracknumber
KeyLeq(r, o, code(_)) ==
    LET cmp == <<TextCmp(r.artist, o.artist, code), TextCmp(r.album, o.album, code),
                 NumCmp(r.discnumber, o.discnumber), NumCmp(r.tracknumber, o.tracknumber)>>
        nonzero == {i \in 1..4 : cmp[i] # 0}
    IN  nonzero = {} \/ cmp[CHOOSE i \in nonzero : \A j \in nonzero : i <= j] = -1

FoldedCode(c) == Ord[lower(c)]

(***************************************************************************)
(* C18: the rows come back sorted by artist, album, disc number, track     *)
(* number, ascending, the texts compared without regard to case.  The      *)
(* statement and the table name no collation, so SQLite compares the       *)
(* texts byte by byte: the artist "Ba" comes before the artist "a".        *)
(***************************************************************************)
C18_SortedIgnoringCase ==
    (Searched /\ raised = "none") =>
        \A i \in 1..(Len(results) - 1) : KeyLeq(results[i], results[i + 1], FoldedCode)

(***************************************************************************)
(* C19: the clause texts never become part of the statement text: the      *)
(* statement is fixed by the number of clauses of each field (so two       *)
(* queries with the same numbers give the same text), it is made of the    *)
(* literals of the code only, and the texts are in the bound parameters.   *)
(***************************************************************************)
\* "(" leaf " or " leaf ... ")" with m leaves, the columns taken in turn
GroupText(cols, m) ==
    [k \in 1..(2 * m + 1) |->
        IF k = 1 THEN "("
        ELSE IF k = 2 * m + 1 THEN ")"
        ELSE IF k % 2 = 1 THEN " or "
        ELSE cols[(((k \div 2) - 1) % Len(cols)) + 1]]

RECURSIVE AndChain(_)
AndChain(gs) ==
    IF gs = <<>> THEN <<>>
    ELSE IF Len(gs) = 1 THEN gs[1]
    ELSE gs[1] \o <<" and ">> \o AndChain(Tail(gs))

\* the statement for ng genre, na artist, nal album, nt title and nm
\* unprefixed clauses
StatementFor(ng, na, nal, nt, nm) ==
    <<"select * from media where ">>
    \o AndChain(SelectSeq(<<GroupText(<<"genre like ?">>, ng),
                            GroupText(<<"artist like ?">>, na),
                            GroupText(<<"album like ?">>, nal),
                            GroupText(<<"title like ?">>, nt),
                            GroupText(<<"artist like ?", "album like ?", "title like ?">>,
                                      3 * nm)>>,
                          LAMBDA g : Len(g) > 1))
    \o <<" order by artist, album, discnumber, tracknumber">>

AllClauseTexts ==
    UNION {{ClauseTexts[f][i] : i \in 1..Len(ClauseTexts[f])} : f \in Fields}

C19_TextsOnlyInParameters ==
    Searched =>
        /\ sql = StatementFor(Len(genre_params), Len(artist_params), Len(album_params),
                              Len(title_params), Len(multi_params))
        /\ {sql_params[i] : i \in 1..Len(sql_params)}
              = {<<"%">> \o t \o <<"%">> : t \in AllClauseTexts}
        /\ Len(sql_params) = Len(genre_params) + Len(artist_params) + Len(album_params)
                             + Len(title_params) + 3 * Len(multi_params)

\* a title clause whose text "!" is nowhere in the statement
C19_Witness ==
    /\ Searched
    /\ input_string = <<"$", "!", ",", "a">>
    /\ sql = <<"select * from media where ", "(", "title like ?", ")", " and ",
               "(", "artist like ?", " or ", "album like ?", " or ", "title like ?", ")",
               " order by artist, album, discnumber, tracknumber">>
    /\ sql_params[1] = <<"%", "!", "%">>

(***************************************************************************)
(* C20, as claimed: the groups stand in the AND chain in the order in      *)
(* which their fields first appear in the query.  The code joins the       *)
(* blocks in one fixed order.                                              *)
(***************************************************************************)
FieldOrder == <<"genre", "artist", "album", "title", "any">>

\* the field of a block: the any block is the one comparing several columns
BlockField(b) ==
    LET leaves == SelectSeq(b, IsLeaf)
    IN  IF \E i \in 1..Len(leaves) : leaves[i] # leaves[1] THEN "any"
        ELSE LeafColumn[leaves[1]]

GroupOrder == [k \in 1..Len(Blocks) |-> BlockField(Blocks[k])]

SegmentField(w) ==
    IF w = <<>> THEN "any"
    ELSE CASE w[1] = "!" -> "genre" [] w[1] = "@" -> "artist" [] w[1] = "#" -> "album"
           [] w[1] = "$" -> "title" [] OTHER -> "any"

\* the fields of the query in the order of their first segments
FirstSeenOrder(s) ==
    LET fs == [k \in 1..SegmentCount(s) |-> SegmentField(TrimmedSegments(s)[k])]
        firsts == {k \in 1..Len(fs) : \A j \in 1..(k - 1) : fs[j] # fs[k]}
    IN  [i \in 1..Cardinality(firsts) |->
            fs[CHOOSE k \in firsts : Cardinality({j \in firsts : j < k}) = i - 1]]

EndsHandling == pc \in {"searched", "call"} /\ pc' \in {"done", "raised", "exit"}

C15_NoMatchesReported ==
    [][(EndsHandling /\ raised = "none" /\ results = <<>>) =>
          /\ output' # <<>>
          /\ output'[Len(output')].line = "No results found."
          /\ playing' = playing]_vars

(***************************************************************************)
(* C21: a query of one unprefixed clause T returns exactly the rows one of *)
(* whose artist, album or title T matches; a row of which only the genre   *)
(* matches T is not returned.                                              *)
(***************************************************************************)
SingleUnprefixed(s) == SegmentCount(s) = 1 /\ Len(Unprefixed(s)) = 1

C21_SingleClauseIsAnyOfThree ==
    (Searched /\ raised = "none" /\ SingleUnprefixed(input_string)) =>
        LET T == Unprefixed(input_string)[1]
        IN  /\ Found = {row \in media : \E col \in TextColumns : Matches(T, row[col])}
            /\ \A row \in media :
                  (Matches(T, row.genre) /\ \A col \in TextColumns : ~Matches(T, row[col]))
                      => row \notin Found

\* the query "b": rows by the artist "b" are returned, the row "a", "a", "a"
\* of the genre "b" is not
C21_Witness ==
    /\ Searched
    /\ input_string = <<"b">>
    /\ \E row \in Found : row.artist = <<"b">>
    /\ \E row \in media \ Found : row.genre = <<"b">>

(***************************************************************************)
(* C28: empty segments do not change what a query matches: the query       *)
(* with a trailing comma, or with ", " put before it, returns the same     *)
(* rows as the query itself.  The code makes a clause of every segment     *)
(* (C4), and the empty text matches every row.                             *)
(***************************************************************************)
\* the rows search_media returns for the query q
RowsFor(q) ==
    LET p == parse_query(q)
        rows == do_sql(craft_sql(p), craft_params(p), media)
    IN  {rows[i] : i \in 1..Len(rows)}

WithEmptySegments(q) == {q \o <<",">>, <<",", " ">> \o q}

C28_EmptySegmentsChangeNothing ==
    (Searched /\ raised = "none") =>
        \A q \in WithEmptySegments(input_string) : RowsFor(q) = Found

(***************************************************************************)
(* C22: in the one-shot query the argument is split at its ';': the text   *)
(* before it is the query searched and the text after it is the command    *)
(* handed, with the results, to playlist_handler; an argument without ';'  *)
(* is searched whole and all of its results are played.                    *)
(***************************************************************************)
Semicolons == {i \in 1..Len(argument) : argument[i] = ";"}

OneShotParsed == mode = "query" /\ pc \notin {"main"} /\ raised # "ValueError"

C22_SplitAtSemicolon ==
    (OneShotParsed /\ Cardinality(Semicolons) <= 1) =>
        /\ IF Semicolons = {}
           THEN /\ input_string = argument
                /\ command = <<"a">>
                /\ pc \in {"play", "done"} => (play_called /\ playlist = results)
           ELSE LET i == CHOOSE i \in Semicolons : TRUE
                IN  /\ input_string = SubSeq(argument, 1, i - 1)
                    /\ command = SubSeq(argument, i + 1, Len(argument))
        /\ pc = "call" => media_entries = results
        /\ pc \in {"play", "done", "raised"} => call_entries = results

\* -Q '!a; s': the two tracks of the genre "a" are searched and shuffled
C22_Witness ==
    /\ mode = "query"
    /\ argument = <<"!", "a", ";", " ", "s">>
    /\ pc = "done"
    /\ input_string = <<"!", "a">>
    /\ command = <<" ", "s">>
    /\ Len(playlist) = 2
    /\ playing = 2

(***************************************************************************)
(* C30: in the one-shot query every argument, also one with more than one  *)
(* ';', is handled without an uncaught exception.  The code unpacks the    *)
(* list split(';') gives into two names, which raises ValueError when the  *)
(* list has three or more items.                                           *)
(***************************************************************************)
C30_OneShotNeverRaises ==
    mode = "query" => (pc # "raised" /\ raised = "none")

(***************************************************************************)
(* Vocabulary of the properties of the indexer.                            *)
(***************************************************************************)
Indexed == pc = "indexed"

\* the media files under the location
OnDisk == {k \in DOMAIN files :
             files[k] # "absent" /\ file_path(k)[Len(file_path(k))] \in MediaExtensions}

InTable(k) == \E row \in media : row.path = file_path(k)

\* the media files parse_media_file reads without raising
Readable == {k \in OnDisk : file_path(k)[Len(file_path(k))] \notin {".ogg", ".oga"}}

\* a run with --freshen on a database that was there
Freshened == Indexed /\ freshen /\ ~made_db

(***************************************************************************)
(* C24: whenever the startup makes the database (it was missing, or        *)
(* --force-rescan is given), every media file under the location is in     *)
(* the table after the startup, whatever the other flags.  index_media     *)
(* takes args.freshen as its default, so with --freshen too only the       *)
(* files newer than the database just made are scanned.  (Stated for the   *)
(* files that parse_media_file reads; an Ogg file ends the run.)           *)
(***************************************************************************)
C24_FreshDatabaseHoldsEveryFile ==
    (Indexed /\ made_db) => \A k \in Readable : InTable(k)

(***************************************************************************)
(* C25: after a run with --freshen no row of the table has a path that is  *)
(* not on the disk.  The code has no delete statement.                     *)
(***************************************************************************)
C25_FreshenRemovesStaleRows ==
    Freshened => \A row \in media : \E k \in OnDisk : row.path = file_path(k)

(***************************************************************************)
(* C26: after a run with --freshen every media file newer than the         *)
(* database is in the table, in whatever order the files are fed to the    *)
(* insert and also when some of them are in the table already.  The first  *)
(* file that is in the table already ends the executemany, and the files   *)
(* after it are not inserted.  (Stated for the files that                  *)
(* parse_media_file reads.)                                                *)
(***************************************************************************)
C26_FreshenIndexesEveryNewFile ==
    Freshened => \A k \in Readable : files[k] = "new" => InTable(k)

(***************************************************************************)
(* C27: when the indexer inserts a track whose path is in the table        *)
(* already, the error is passed over and the row is overwritten: after     *)
(* the step in which executemany meets such a file, the table holds the    *)
(* newly parsed row of one of the files it could have met.  The statement  *)
(* is a plain insert: the row of the earlier run stays.                    *)
(***************************************************************************)
MeetsKnownPath ==
    /\ pc = "insert"
    /\ pending # {}
    /\ pc' = "report"

C27_KnownPathIsOverwritten ==
    [][MeetsKnownPath =>
          \E k \in pending :
              /\ file_path(k) \in paths_of(media \cup transaction)
              /\ parse_media_file(k) \in media']_vars

(***************************************************************************)
(* Vocabulary of the properties of the transcoders.                        *)
(***************************************************************************)
Jobs == DOMAIN stage

IsFlac(f) == SubSeq(f, Len(f) - 4, Len(f)) = <<".", "f", "l", "a", "c">>

\* the .m4a a file is converted into and, for a FLAC file, its .wav
OutputOf(f) == m4a_file(f, IF IsFlac(f) THEN 5 ELSE 4)

(***************************************************************************)
(* C23: with --lossless every file xyz2aac.py processes, FLAC, MP3 or M4A, *)
(* is encoded with the codec alac, whatever --codec and --bitrate are.     *)
(* convert_audio_to_aac, which takes the MP3 and M4A files, calls          *)
(* afconvert with the codec of --codec.                                    *)
(***************************************************************************)
C23_LosslessEncodesAlac ==
    (script \in {"xyz2aac.py", "apple-audio-converter/xyz2aac.py"} /\ args.lossless) =>
        \A f \in DOMAIN encoded : encoded[f].d = "alac"

(***************************************************************************)
(* C29: two files processed in the same run never share their .m4a or      *)
(* their .wav, and no file is its own output, so no two workers write the  *)
(* same file at the same time.  The output name keeps only the base name   *)
(* of the input without its extension, and the walk goes through the       *)
(* output directory as well.                                               *)
(***************************************************************************)
C29_WorkersWriteDistinctFiles ==
    pc \in {"pool", "done"} =>
        /\ \A f, g \in Jobs :
              f # g => /\ OutputOf(f) # OutputOf(g)
                       /\ (IsFlac(f) /\ IsFlac(g)) => wav_file(f) # wav_file(g)
                       /\ Writing(f) \cap Writing(g) = {}
        /\ \A f \in Jobs : OutputOf(f) # f

=============================================================================
